---- MODULE Spec2Model ----
(***************************************************************************)
(* Model of the slumprutt backend (backend/src/routeGenerator.ts and the   *)
(* POST /api/route handler): route synthesis, the road-routing adapter     *)
(* getRoutedPaths with its per-route fallback, and the request handler.    *)
(*                                                                         *)
(* Numbers are fixed point:                                                *)
(*   latitude / longitude      micro-degrees                               *)
(*   distances in kilometres   1/100 km                                    *)
(*   durations in minutes      1/10 min                                    *)
(*   Math.random()             x in 0..RandDen-1 standing for x/RandDen    *)
(*   sine and cosine           1/1000                                      *)
(* An optional (possibly undefined) value is <<>> or <<v>>.                *)
(***************************************************************************)
EXTENDS Integers, Sequences, FiniteSets, TLC

(* ------------------------------ bounds --------------------------------- *)

\* Largest numRoutes a request asks for.
MaxRoutes == 4

\* Number of request slots of the server.
MaxReq == 2

\* Denominator of the modelled Math.random() values.
RandDen == 4

Requests == 1..MaxReq

(* --------------------------- optional values --------------------------- *)

None == <<>>

Some(v) == <<v>>

\* JavaScript numbers that may be NaN (undefined / 1000, Math.max(1, NaN)).
Num(v) == [nan |-> FALSE, val |-> v]

NaN == [nan |-> TRUE, val |-> 0]

(* ------------------------------ geo-math -------------------------------- *)

\* Math.sin, argument in whole degrees, result in 1/1000 (Bhaskara's rational form).
BhaskaraSin(x) == (4000 * x * (180 - x)) \div (40500 - x * (180 - x))

Sin1000(deg) ==
    LET x == deg % 360
    IN  IF x <= 180 THEN BhaskaraSin(x) ELSE 0 - BhaskaraSin(x - 180)

Cos1000(deg) == Sin1000(deg + 90)

RECURSIVE NewtonSqrt(_, _)
NewtonSqrt(n, x) ==
    LET y == (x + n \div x) \div 2
    IN  IF y >= x THEN x ELSE NewtonSqrt(n, y)

\* Math.sqrt on integers.
Isqrt(n) == IF n = 0 THEN 0 ELSE NewtonSqrt(n, n)

\* Whole degrees of a micro-degree latitude.
LatDeg(c) == c.lat \div 1000000

\* calculateDistance: haversine distance in 1/100 km.  The coordinates of one
\* request lie within half a degree of each other, where
\* 2*atan2(sqrt(a), sqrt(1-a)) is sqrt(dLat^2 + cos(lat1)*cos(lat2)*dLon^2)
\* in radians; R*pi/180 = 111.19 km per degree.
calculateDistance(coord1, coord2) ==
    LET dLat == (coord2.lat - coord1.lat) \div 10
        dLon == (coord2.lon - coord1.lon) \div 10
        a    == dLat * dLat
                + ((dLon * Cos1000(LatDeg(coord1))) \div 1000)
                  * ((dLon * Cos1000(LatDeg(coord2))) \div 1000)
    IN  (Isqrt(a) * 11119) \div 100000

RECURSIVE SumSegments(_, _)
SumSegments(points, i) ==
    IF i >= Len(points) THEN 0
    ELSE calculateDistance(points[i], points[i + 1]) + SumSegments(points, i + 1)

\* calculateRouteDistance: sum over consecutive pairs.
calculateRouteDistance(points) == SumSegments(points, 1)

(* ---------------------------- Math.random ------------------------------ *)

\* The n-th call (counted from 0) of Math.random() under the value stream rnd.
Rand(rnd, n) == rnd[(n % Len(rnd)) + 1]

(* ------------------------- waypoint synthesizer ------------------------ *)

Max(a, b) == IF a >= b THEN a ELSE b

Min(a, b) == IF a <= b THEN a ELSE b

\* generateRandomWaypoints: count waypoints in the box between start and end,
\* each moved by (Math.random() - 0.5) * 0.01 degrees per axis.  used is the
\* number of Math.random() calls made before.
generateRandomWaypoints(start, end, count, rnd, used) ==
    [i \in 1..count |->
        LET n   == used + 4 * (i - 1)
            lat == start.lat + (Rand(rnd, n) * (end.lat - start.lat)) \div RandDen
            lon == start.lon + (Rand(rnd, n + 1) * (end.lon - start.lon)) \div RandDen
        IN  [lat |-> lat + ((2 * Rand(rnd, n + 2) - RandDen) * 5000) \div RandDen,
             lon |-> lon + ((2 * Rand(rnd, n + 3) - RandDen) * 5000) \div RandDen]]

\* numWaypoints without the clamp to 3..5.
NumWaypointsUnclamped(variationIndex) == 3 + variationIndex

\* numWaypoints of generateLoopWaypoints.
NumWaypoints(variationIndex) == Max(3, Min(5, 3 + variationIndex))

\* baseRadius of generateLoopWaypoints in metres: km / (2*pi) * 1.5.
BaseRadius(targetDistanceKm) == (targetDistanceKm * 10 * 1500) \div 6283

\* generateLoopWaypoints: numWaypoints points around start.
generateLoopWaypoints(start, targetDistanceKm, variationIndex, rnd, used) ==
    LET numWaypoints     == NumWaypoints(variationIndex)
        primaryDirection == variationIndex * 120
    IN  [j \in 1..numWaypoints |->
            LET i              == j - 1
                n              == used + 2 * i
                baseAngle      == (360 * i) \div numWaypoints + primaryDirection
                angleVariation == ((2 * Rand(rnd, n) - RandDen) * 86) \div (2 * RandDen * 10)
                angle          == baseAngle + angleVariation
                radius         == (BaseRadius(targetDistanceKm)
                                   * (8 * RandDen + 4 * Rand(rnd, n + 1)))
                                  \div (10 * RandDen)
            IN  [lat |-> start.lat + (Sin1000(angle) * radius) \div 111,
                 lon |-> start.lon
                         + (((Cos1000(angle) * radius) \div 111) * 1000)
                           \div Cos1000(LatDeg(start))]]

(* ---------------------------- route assembler -------------------------- *)

\* waypointCount without the lower bound of 1.
WaypointCountNoMin(start, end, distanceKm) ==
    (distanceKm - calculateDistance(start, end)) \div 200

\* waypointCount of generateRoutes, point-to-point branch.
WaypointCount(start, end, distanceKm) ==
    LET directDistance == calculateDistance(start, end)
        extraDistance  == distanceKm - directDistance
    IN  Max(1, extraDistance \div 200)

\* Math.random() calls made by the iterations before iteration i.
RECURSIVE RandomUsed(_, _, _, _)
RandomUsed(start, end, distanceKm, i) ==
    IF i = 0 THEN 0
    ELSE RandomUsed(start, end, distanceKm, i - 1)
         + (IF end = None
            THEN 2 * NumWaypoints(i - 1)
            ELSE 4 * WaypointCount(start, end[1], distanceKm))

\* An iteration that numbers the routes from 1.
AssembleRouteOneBased(start, end, distanceKm, i, rnd) ==
    LET isLoop    == end = None
        used      == RandomUsed(start, end, distanceKm, i)
        waypoints == IF isLoop
                     THEN generateLoopWaypoints(start, distanceKm, i, rnd, used)
                     ELSE generateRandomWaypoints(start, end[1],
                              WaypointCount(start, end[1], distanceKm), rnd, used)
        points    == IF isLoop
                     THEN <<start>> \o waypoints \o <<start>>
                     ELSE <<start>> \o waypoints \o <<end[1]>>
    IN  [id        |-> i + 1,
         points    |-> points,
         waypoints |-> waypoints,
         isLoop    |-> isLoop,
         distance  |-> Some(Num(calculateRouteDistance(points))),
         duration  |-> None,
         steps     |-> None]

\* One iteration of the loop of generateRoutes.
AssembleRoute(start, end, distanceKm, i, rnd) ==
    LET isLoop    == end = None
        used      == RandomUsed(start, end, distanceKm, i)
        waypoints == IF isLoop
                     THEN generateLoopWaypoints(start, distanceKm, i, rnd, used)
                     ELSE generateRandomWaypoints(start, end[1],
                              WaypointCount(start, end[1], distanceKm), rnd, used)
        points    == IF isLoop
                     THEN <<start>> \o waypoints \o <<start>>
                     ELSE <<start>> \o waypoints \o <<end[1]>>
    IN  [id        |-> i,
         points    |-> points,
         waypoints |-> waypoints,
         isLoop    |-> isLoop,
         distance  |-> Some(Num(calculateRouteDistance(points))),
         duration  |-> None,
         steps     |-> None]

\* generateRoutes(start, end, numRoutes, distanceKm).
generateRoutes(start, end, numRoutes, distanceKm, rnd) ==
    [k \in 1..numRoutes |-> AssembleRoute(start, end, distanceKm, k - 1, rnd)]

(* ------------------------------- inputs -------------------------------- *)

Stockholm == [lat |-> 59330000, lon |-> 18060000]

NearEquator == [lat |-> 10000, lon |-> 10000]

\* About 10 km east of NearEquator.
EastOfEquator == [lat |-> 10000, lon |-> 100000]

\* A coordinate as it arrives in a request body: either field may be absent.
Raw(c) == [lat |-> Some(c.lat), lon |-> Some(c.lon)]

\* start / end pairs of the request bodies.
Places ==
    { [start |-> None, end |-> None],
      [start |-> Some([lat |-> None, lon |-> Some(18060000)]), end |-> None],
      [start |-> Some([lat |-> Some(0), lon |-> Some(18060000)]), end |-> None],
      [start |-> Some([lat |-> Some(59330000), lon |-> Some(0)]), end |-> None],
      [start |-> Some(Raw(Stockholm)), end |-> None],
      [start |-> Some(Raw(NearEquator)), end |-> Some(EastOfEquator)] }

\* Value streams of Math.random(), numerators over RandDen.
Streams == { <<2, 2>>, <<0, 0, 2, 2, 3, 1, 1>> }

\* Request bodies that give every field; distanceKm in 1/100 km.
ExplicitBodies ==
    { [start |-> p.start, end |-> p.end, mode |-> Some("walk"),
       numRoutes |-> Some(n), distanceKm |-> Some(d)] :
        p \in Places, n \in 0..MaxRoutes, d \in {0, 1500} }

\* Request bodies that leave numRoutes and distanceKm, or mode too, to the defaults.
DefaultedBodies ==
    { [start |-> p.start, end |-> p.end, mode |-> m, numRoutes |-> None,
       distanceKm |-> None] :
        p \in Places, m \in {None, Some("car"), Some("bike")} }

\* RouteRequest bodies.
Bodies == ExplicitBodies \cup DefaultedBodies

(* --------------------------- the road router --------------------------- *)

\* A road point next to p, as the GeoJSON pair [lon, lat].
Snap(p) == <<p.lon + 10, p.lat - 10>>

TurnStep == [maneuver |-> Some([instruction |-> Some("Turn left")]),
             name |-> Some("Kungsgatan"), distance |-> 120, duration |-> 90]

NamedStep == [maneuver |-> Some([instruction |-> None]),
              name |-> Some("Kungsgatan"), distance |-> 300, duration |-> 200]

BareStep == [maneuver |-> None, name |-> None, distance |-> 80, duration |-> 60]

\* A complete first route of an answer of the router to the call for route.
GoodOsrmRoute(route) ==
    [geometry |-> Some([coordinates |->
                     Some([i \in 1..Len(route.points) |-> Snap(route.points[i])])]),
     distance |-> Some(4200),
     duration |-> Some(3000),
     legs     |-> Some(<< [steps |-> Some(<<TurnStep, NamedStep>>)],
                          [steps |-> Some(<<BareStep>>)] >>)]

Answer(code, routes) == [threw |-> FALSE, code |-> code, routes |-> routes]

\* fetch or response.json() rejected: network error, non-JSON body.
Threw == [threw |-> TRUE, code |-> "", routes |-> None]

\* The outcomes of the external call for route.
RouterReplies(route) ==
    LET good == GoodOsrmRoute(route)
    IN  { Threw,
          Answer("NoRoute", None),
          Answer("Ok", Some(<<>>)),
          Answer("Ok", Some(<<good>>)),
          Answer("Ok", Some(<<[good EXCEPT !.geometry = None]>>)),
          Answer("Ok", Some(<<[good EXCEPT !.geometry = Some([coordinates |-> None])]>>)),
          Answer("Ok", Some(<<[good EXCEPT !.geometry =
                     Some([coordinates |-> Some(<<Snap(route.points[1])>>)])]>>)),
          Answer("Ok", Some(<<[good EXCEPT !.distance = None]>>)),
          Answer("Ok", Some(<<[good EXCEPT !.duration = None]>>)),
          Answer("Ok", Some(<<[good EXCEPT !.legs = None]>>)) }

(* ------------------------- road-routing adapter ------------------------ *)

\* osrmProfile of getRoutedPaths.
OsrmProfile(mode) ==
    IF mode = "car" THEN "driving" ELSE IF mode = "bike" THEN "cycling" ELSE "foot"

\* coords of the request URL: the points as lon,lat pairs.
Coords(route) == [i \in 1..Len(route.points) |-> <<route.points[i].lon, route.points[i].lat>>]

\* (coord) => ({lon: coord[0], lat: coord[1]})
FromGeoJson(coord) == [lat |-> coord[2], lon |-> coord[1]]

\* x / c on a possibly undefined number: undefined / c is NaN.
Divide(x, num, den) == IF x = None THEN NaN ELSE Num((x[1] * num) \div den)

\* instruction: step.maneuver?.instruction || `Continue on ${step.name || 'road'}`
Instruction(step) ==
    IF step.maneuver # None /\ step.maneuver[1].instruction # None
    THEN <<step.maneuver[1].instruction[1]>>
    ELSE <<"Continue on", IF step.name # None THEN step.name[1] ELSE "road">>

RouteStep(step) ==
    [instruction |-> Instruction(step), distance |-> step.distance,
     duration |-> step.duration]

RECURSIVE FlattenLegs(_, _)
FlattenLegs(legs, i) ==
    IF i > Len(legs) THEN <<>>
    ELSE (IF legs[i].steps = None THEN <<>>
          ELSE [j \in 1..Len(legs[i].steps[1]) |-> RouteStep(legs[i].steps[1][j])])
         \o FlattenLegs(legs, i + 1)

\* steps of getRoutedPaths: all steps of all legs, in order.
ExtractSteps(osrmRoute) ==
    IF osrmRoute.legs = None THEN <<>> ELSE FlattenLegs(osrmRoute.legs[1], 1)

\* data.code === 'Ok' && data.routes && data.routes[0]
IsOk(data) == data.code = "Ok" /\ data.routes # None /\ Len(data.routes[1]) > 0

\* osrmRoute.geometry.coordinates.map(...) throws a TypeError.
MapThrows(osrmRoute) ==
    osrmRoute.geometry = None \/ osrmRoute.geometry[1].coordinates = None

\* An enriched route whose waypoints are taken from the road geometry.
EnrichedRewritesWaypoints(route, osrmRoute) ==
    LET coordinates == osrmRoute.geometry[1].coordinates[1]
        routedPoints == [i \in 1..Len(coordinates) |-> FromGeoJson(coordinates[i])]
    IN  [route EXCEPT
            !.points    = routedPoints,
            !.waypoints = SubSeq(routedPoints, 2, Len(routedPoints) - 1),
            !.distance  = Some(Divide(osrmRoute.distance, 1, 10)),
            !.duration  = Some(Divide(osrmRoute.duration, 10, 60)),
            !.steps     = Some(ExtractSteps(osrmRoute))]

\* An enriched route that is given no steps.
EnrichedNoSteps(route, osrmRoute) ==
    LET coordinates == osrmRoute.geometry[1].coordinates[1]
    IN  [route EXCEPT
            !.points   = [i \in 1..Len(coordinates) |-> FromGeoJson(coordinates[i])],
            !.distance = Some(Divide(osrmRoute.distance, 1, 10)),
            !.duration = Some(Divide(osrmRoute.duration, 10, 60))]

\* The enriched route pushed on success.
Enriched(route, osrmRoute) ==
    LET coordinates == osrmRoute.geometry[1].coordinates[1]
    IN  [route EXCEPT
            !.points   = [i \in 1..Len(coordinates) |-> FromGeoJson(coordinates[i])],
            !.distance = Some(Divide(osrmRoute.distance, 1, 10)),
            !.duration = Some(Divide(osrmRoute.duration, 10, 60)),
            !.steps    = Some(ExtractSteps(osrmRoute))]

\* The body of the for loop of getRoutedPaths once the call has settled with
\* reply: the route pushed to routedRoutes.
RoutedRoute(route, reply) ==
    IF reply.threw THEN route
    ELSE IF IsOk(reply)
         THEN IF MapThrows(reply.routes[1][1]) THEN route
              ELSE Enriched(route, reply.routes[1][1])
         ELSE route

(* ------------------------------- state --------------------------------- *)

VARIABLES
    pc,            \* per request: "idle", "routing", "awaiting", "done"
    body,          \* the request body, None before the request arrives
    rnd,           \* the Math.random() values the request's generation draws
    routes,        \* routes of the handler: the result of generateRoutes
    routedRoutes,  \* routedRoutes of getRoutedPaths
    cursor,        \* number of routes the for loop of getRoutedPaths has taken
    data,          \* what the awaited call of this pass settled with, else None
    inflight,      \* the external call being awaited, None if there is none
    fetched,       \* ids of the routes a call has been issued for, in order
    genCalls,      \* number of calls of generateRoutes
    response       \* the HTTP response sent, None before

vars == <<pc, body, rnd, routes, routedRoutes, cursor, data, inflight, fetched,
          genCalls, response>>

Init ==
    /\ pc = [r \in Requests |-> "idle"]
    /\ body = [r \in Requests |-> None]
    /\ rnd = [r \in Requests |-> <<0>>]
    /\ routes = [r \in Requests |-> <<>>]
    /\ routedRoutes = [r \in Requests |-> <<>>]
    /\ cursor = [r \in Requests |-> 0]
    /\ data = [r \in Requests |-> None]
    /\ inflight = [r \in Requests |-> None]
    /\ fetched = [r \in Requests |-> <<>>]
    /\ genCalls = [r \in Requests |-> 0]
    /\ response = [r \in Requests |-> None]

(* ------------------------- POST /api/route ----------------------------- *)

\* x = d in a destructuring pattern: the default applies to undefined only.
Default(x, d) == IF x = None THEN d ELSE x[1]

\* A validation that tests for undefined instead of falsy.
StartInvalidUndefinedOnly(start) ==
    \/ start = None
    \/ start[1].lat = None
    \/ start[1].lon = None

\* !start?.lat || !start?.lon
StartInvalid(start) ==
    \/ start = None
    \/ start[1].lat = None \/ start[1].lat[1] = 0
    \/ start[1].lon = None \/ start[1].lon[1] = 0

Coordinate(raw) == [lat |-> raw.lat[1], lon |-> raw.lon[1]]

ErrorResponse(status, message) ==
    [status |-> status, error |-> Some(message), routes |-> None, mode |-> None]

RouteResponse(rs, mode) ==
    [status |-> 200, error |-> None, routes |-> Some(rs), mode |-> Some(mode)]

\* The handler up to its first await: validation, generateRoutes, and the entry
\* of getRoutedPaths.
Post(r, b, stream) ==
    /\ pc[r] = "idle"
    /\ body' = [body EXCEPT ![r] = Some(b)]
    /\ rnd' = [rnd EXCEPT ![r] = stream]
    /\ IF StartInvalid(b.start)
       THEN /\ response' = [response EXCEPT ![r] =
                   Some(ErrorResponse(400, "Start location with lat/lon required"))]
            /\ pc' = [pc EXCEPT ![r] = "done"]
            /\ UNCHANGED <<routes, genCalls>>
       ELSE /\ routes' = [routes EXCEPT ![r] =
                   generateRoutes(Coordinate(b.start[1]), b.end,
                                  Default(b.numRoutes, 3),
                                  Default(b.distanceKm, 500), stream)]
            /\ genCalls' = [genCalls EXCEPT ![r] = @ + 1]
            /\ pc' = [pc EXCEPT ![r] = "routing"]
            /\ UNCHANGED response
    /\ UNCHANGED <<routedRoutes, cursor, data, inflight, fetched>>

\* The route the for loop of getRoutedPaths is at.
Current(r) == routes[r][cursor[r] + 1]

\* for (const route of routes): build the URL and call fetch.
Fetch(r) ==
    /\ pc[r] = "routing"
    /\ cursor[r] < Len(routes[r])
    /\ inflight' = [inflight EXCEPT ![r] =
           Some([profile |-> OsrmProfile(Default(body[r][1].mode, "walk")),
                 coords  |-> Coords(Current(r)),
                 route   |-> Current(r).id])]
    /\ fetched' = [fetched EXCEPT ![r] = Append(@, Current(r).id)]
    /\ data' = [data EXCEPT ![r] = None]
    /\ pc' = [pc EXCEPT ![r] = "awaiting"]
    /\ UNCHANGED <<body, rnd, routes, routedRoutes, cursor, genCalls, response>>

\* A loop whose catch block logs the error and pushes nothing.
SettleDropOnThrow(r) ==
    /\ pc[r] = "awaiting"
    /\ \E reply \in RouterReplies(Current(r)) :
           /\ data' = [data EXCEPT ![r] = Some(reply)]
           /\ routedRoutes' = [routedRoutes EXCEPT ![r] =
                  IF reply.threw THEN @ ELSE Append(@, RoutedRoute(Current(r), reply))]
    /\ cursor' = [cursor EXCEPT ![r] = @ + 1]
    /\ inflight' = [inflight EXCEPT ![r] = None]
    /\ pc' = [pc EXCEPT ![r] = "routing"]
    /\ UNCHANGED <<body, rnd, routes, fetched, genCalls, response>>

\* A loop without try / catch: the rejection reaches the catch of the handler.
SettleNoCatch(r) ==
    /\ pc[r] = "awaiting"
    /\ \E reply \in RouterReplies(Current(r)) :
           /\ data' = [data EXCEPT ![r] = Some(reply)]
           /\ IF reply.threw
              THEN /\ response' = [response EXCEPT ![r] =
                          Some(ErrorResponse(500, "Failed to generate routes"))]
                   /\ pc' = [pc EXCEPT ![r] = "done"]
                   /\ UNCHANGED <<routedRoutes, cursor>>
              ELSE /\ routedRoutes' = [routedRoutes EXCEPT ![r] =
                          Append(@, RoutedRoute(Current(r), reply))]
                   /\ cursor' = [cursor EXCEPT ![r] = @ + 1]
                   /\ pc' = [pc EXCEPT ![r] = "routing"]
                   /\ UNCHANGED response
    /\ inflight' = [inflight EXCEPT ![r] = None]
    /\ UNCHANGED <<body, rnd, routes, fetched, genCalls>>

\* A loop that calls the router again for a route whose call threw.
SettleRetryOnThrow(r) ==
    /\ pc[r] = "awaiting"
    /\ \E reply \in RouterReplies(Current(r)) :
           /\ data' = [data EXCEPT ![r] = Some(reply)]
           /\ IF reply.threw
              THEN UNCHANGED <<routedRoutes, cursor>>
              ELSE /\ routedRoutes' = [routedRoutes EXCEPT ![r] =
                          Append(@, RoutedRoute(Current(r), reply))]
                   /\ cursor' = [cursor EXCEPT ![r] = @ + 1]
    /\ inflight' = [inflight EXCEPT ![r] = None]
    /\ pc' = [pc EXCEPT ![r] = "routing"]
    /\ UNCHANGED <<body, rnd, routes, fetched, genCalls, response>>

\* The awaited call settles with reply; the rest of the loop body runs.
Settle(r) ==
    /\ pc[r] = "awaiting"
    /\ \E reply \in RouterReplies(Current(r)) :
           /\ data' = [data EXCEPT ![r] = Some(reply)]
           /\ routedRoutes' = [routedRoutes EXCEPT ![r] =
                  Append(@, RoutedRoute(Current(r), reply))]
    /\ cursor' = [cursor EXCEPT ![r] = @ + 1]
    /\ inflight' = [inflight EXCEPT ![r] = None]
    /\ pc' = [pc EXCEPT ![r] = "routing"]
    /\ UNCHANGED <<body, rnd, routes, fetched, genCalls, response>>

\* getRoutedPaths returns routedRoutes; the handler sends {routes, mode}.
Respond(r) ==
    /\ pc[r] = "routing"
    /\ cursor[r] = Len(routes[r])
    /\ response' = [response EXCEPT ![r] =
           Some(RouteResponse(routedRoutes[r], Default(body[r][1].mode, "walk")))]
    /\ pc' = [pc EXCEPT ![r] = "done"]
    /\ UNCHANGED <<body, rnd, routes, routedRoutes, cursor, data, inflight, fetched,
                   genCalls>>

\* The handler shares nothing between requests: routes, routedRoutes and data
\* are locals of one invocation.  The behaviours of one request are explored
\* in full on the first slot.
Served == {1}

Next ==
    \E r \in Served :
        \/ \E b \in Bodies, stream \in Streams : Post(r, b, stream)
        \/ Fetch(r)
        \/ Settle(r)
        \/ Respond(r)

Spec == Init /\ [][Next]_vars

\* The program's own steps are taken when they can be; nothing makes the
\* router answer: fetch is awaited without a timeout or an abort signal.
FairSpec == Spec /\ \A r \in Served : WF_vars(Fetch(r)) /\ WF_vars(Respond(r))

(* -------------------------- overlapping requests ----------------------- *)

\* Bodies of the requests that overlap: every start, at most one route.
OverlapBodies ==
    { b \in ExplicitBodies : b.numRoutes[1] <= 1 /\ b.distanceKm = Some(1500) }

\* Express runs a handler invocation per request; an invocation suspended in
\* an await leaves the event loop to the others.  Every slot is served.
OverlapNext ==
    \E r \in Requests :
        \/ \E b \in OverlapBodies, stream \in Streams : Post(r, b, stream)
        \/ Fetch(r)
        \/ Settle(r)
        \/ Respond(r)

OverlapSpec == Init /\ [][OverlapNext]_vars

(* ------------------------------ properties ----------------------------- *)

\* The first route of a reply that has one.
FirstRoute(reply) == reply.routes[1][1]

HasFirstRoute(reply) ==
    ~reply.threw /\ reply.code = "Ok" /\ reply.routes # None /\ reply.routes[1] # <<>>

\* The external call failed: exception, non-"Ok" code, or no first route.
FailedCall(reply) == ~HasFirstRoute(reply)

\* The contracted fields of the first route are all there.
CompleteCall(reply) ==
    /\ HasFirstRoute(reply)
    /\ FirstRoute(reply).geometry # None
    /\ FirstRoute(reply).geometry[1].coordinates # None
    /\ FirstRoute(reply).distance # None
    /\ FirstRoute(reply).duration # None
    /\ FirstRoute(reply).legs # None

\* Code "Ok" and a first route, but a contracted field is missing.
MalformedCall(reply) == HasFirstRoute(reply) /\ ~CompleteCall(reply)

StartMissingOrFalsy(b) ==
    \/ b.start = None
    \/ b.start[1].lat \in {None, Some(0)}
    \/ b.start[1].lon \in {None, Some(0)}

Clamp(x, lo, hi) == IF x < lo THEN lo ELSE IF x > hi THEN hi ELSE x

SameIds(out, in) ==
    /\ Len(out) = Len(in)
    /\ \A k \in 1..Len(out) : out[k].id = in[k].id

\* C1: getRoutedPaths emits one route per input route it has taken, the k-th
\* output carrying the id of the k-th input; the list it returns has the
\* length of the input and the input's ids position by position.
C1_OrderPreserved ==
    \A r \in Requests :
        /\ Len(routedRoutes[r]) = cursor[r]
        /\ cursor[r] <= Len(routes[r])
        /\ SameIds(routedRoutes[r], SubSeq(routes[r], 1, cursor[r]))
        /\ (response[r] # None /\ response[r][1].status = 200)
              => SameIds(response[r][1].routes[1], routes[r])

\* A returned batch of MaxRoutes routes whose first route fell back and whose
\* last route was enriched.
C1_Witness ==
    \E r \in Requests :
        /\ pc[r] = "done"
        /\ response[r][1].status = 200
        /\ Len(routes[r]) = MaxRoutes
        /\ routedRoutes[r][1] = routes[r][1]
        /\ routedRoutes[r][MaxRoutes].steps # None

\* C2: each pass of the loop appends one route and touches no other; when the
\* call failed (exception, non-"Ok", no first route) the appended route is the
\* original one, without duration and steps; when it succeeded the appended
\* route has the returned road geometry, a duration and steps.
C2_FailuresIsolated ==
    [][\A r \in Requests :
          cursor'[r] = cursor[r] + 1 =>
             LET k     == cursor'[r]
                 route == routes[r][k]
                 reply == data'[r][1]
                 new   == routedRoutes'[r][k]
             IN  /\ routes'[r] = routes[r]
                 /\ Len(routedRoutes'[r]) = k
                 /\ SubSeq(routedRoutes'[r], 1, k - 1) = routedRoutes[r]
                 /\ FailedCall(reply) =>
                       /\ new = route
                       /\ new.duration = None
                       /\ new.steps = None
                 /\ CompleteCall(reply) =>
                       LET c == FirstRoute(reply).geometry[1].coordinates[1]
                       IN  /\ new.points = [i \in 1..Len(c) |->
                                               [lat |-> c[i][2], lon |-> c[i][1]]]
                           /\ new.duration # None
                           /\ ~new.duration[1].nan
                           /\ new.steps # None
                           /\ new.id = route.id]_vars

\* The batch of the mocked-router test: route 1 fell back, routes 0 and 2
\* were enriched.
C2_Witness ==
    \E r \in Requests :
        /\ pc[r] = "done"
        /\ Len(routedRoutes[r]) = 3
        /\ routedRoutes[r][1].steps # None /\ routedRoutes[r][1].duration # None
        /\ routedRoutes[r][2] = routes[r][2]
        /\ routedRoutes[r][3].steps # None /\ routedRoutes[r][3].duration # None

\* C3: a reply with code "Ok" and a first route that lacks a contracted field
\* makes the loop emit the original route unchanged.
C3_MalformedFallsBack ==
    \A r \in Requests :
        (data[r] # None /\ MalformedCall(data[r][1]))
            => routedRoutes[r][cursor[r]] = routes[r][cursor[r]]

\* C4: a request that awaits an external call is eventually answered, whether
\* or not that call ever completes.
C4_SlowCallDoesNotBlock ==
    \A r \in Requests : (pc[r] = "awaiting") ~> (pc[r] = "done")

\* C5: a request whose start is missing, or whose start.lat or start.lon is
\* missing or falsy, is answered 400 with a message, generateRoutes is not
\* called and no external call is issued.
C5_InvalidStartRejected ==
    \A r \in Requests :
        (body[r] # None /\ StartMissingOrFalsy(body[r][1]))
            => /\ response[r] # None
               /\ response[r][1].status = 400
               /\ response[r][1].error # None
               /\ response[r][1].routes = None
               /\ genCalls[r] = 0
               /\ routes[r] = <<>>
               /\ fetched[r] = <<>>
               /\ inflight[r] = None

\* A request with start.lat = 0 has been rejected.
C5_Witness ==
    \E r \in Requests :
        /\ body[r] # None
        /\ body[r][1].start # None
        /\ body[r][1].start[1].lat = Some(0)
        /\ response[r] # None
        /\ response[r][1].status = 400

\* C6: the answer to a request that passes validation is a success response
\* {routes, mode} with exactly numRoutes routes, never an error response.
C6_RouterFailureNotPropagated ==
    \A r \in Requests :
        (body[r] # None /\ ~StartMissingOrFalsy(body[r][1]) /\ response[r] # None)
            => /\ response[r][1].status = 200
               /\ response[r][1].error = None
               /\ response[r][1].routes # None
               /\ Len(response[r][1].routes[1]) =
                      (IF body[r][1].numRoutes = None THEN 3 ELSE body[r][1].numRoutes[1])
               /\ response[r][1].mode =
                      (IF body[r][1].mode = None THEN Some("walk") ELSE body[r][1].mode)

\* A success response to a batch of at least two routes whose last external
\* call threw.
C6_Witness ==
    \E r \in Requests :
        /\ response[r] # None
        /\ response[r][1].status = 200
        /\ Len(response[r][1].routes[1]) >= 2
        /\ data[r] # None
        /\ data[r][1].threw

\* C7: generateRoutes returns numRoutes routes, the route at position i has
\* id i, and every route has isLoop true exactly when end is absent.
C7_RoutesNumbered ==
    \A r \in Requests :
        genCalls[r] > 0 =>
            /\ Len(routes[r]) =
                   (IF body[r][1].numRoutes = None THEN 3 ELSE body[r][1].numRoutes[1])
            /\ \A k \in 1..Len(routes[r]) :
                   /\ routes[r][k].id = k - 1
                   /\ routes[r][k].isLoop = (body[r][1].end = None)

\* generateRoutes has returned MaxRoutes point-to-point routes.
C7_Witness ==
    \E r \in Requests :
        /\ genCalls[r] > 0
        /\ body[r][1].end # None
        /\ Len(routes[r]) = MaxRoutes
        /\ ~routes[r][MaxRoutes].isLoop

\* C8: in loop mode the route at index i has clamp(3 + i, 3, 5) waypoints and
\* its points are start, the waypoints in order, start.
C8_LoopShape ==
    \A r \in Requests :
        (genCalls[r] > 0 /\ body[r][1].end = None) =>
            \A k \in 1..Len(routes[r]) :
                LET route == routes[r][k]
                    start == [lat |-> body[r][1].start[1].lat[1],
                              lon |-> body[r][1].start[1].lon[1]]
                    n     == Len(route.waypoints)
                IN  /\ n = Clamp(3 + (k - 1), 3, 5)
                    /\ n \in 3..5
                    /\ route.points = <<start>> \o route.waypoints \o <<start>>
                    /\ route.points[1] = start
                    /\ route.points[Len(route.points)] = start

\* A loop batch with a positive target distance whose route 3 has 5 waypoints.
C8_Witness ==
    \E r \in Requests :
        /\ genCalls[r] > 0
        /\ body[r][1].end = None
        /\ body[r][1].distanceKm = Some(1500)
        /\ Len(routes[r]) >= 4
        /\ Len(routes[r][4].waypoints) = 5

\* C9: in point-to-point mode the points of every route are start, k
\* waypoints, end, with k = max(1, floor((distanceKm - directDistance) / 2)),
\* and k = 1 whenever distanceKm < directDistance + 4.
C9_PointToPointShape ==
    \A r \in Requests :
        (genCalls[r] > 0 /\ body[r][1].end # None) =>
            \A i \in 1..Len(routes[r]) :
                LET route == routes[r][i]
                    start == [lat |-> body[r][1].start[1].lat[1],
                              lon |-> body[r][1].start[1].lon[1]]
                    end   == body[r][1].end[1]
                    dist  == IF body[r][1].distanceKm = None THEN 500
                             ELSE body[r][1].distanceKm[1]
                    extra == dist - calculateDistance(start, end)
                    k     == Len(route.waypoints)
                IN  /\ route.points = <<start>> \o route.waypoints \o <<end>>
                    /\ route.points[1] = start
                    /\ route.points[Len(route.points)] = end
                    /\ k = (IF extra \div 200 > 1 THEN extra \div 200 ELSE 1)
                    /\ (extra < 400 => k = 1)

\* A point-to-point route with two waypoints.
C9_Witness ==
    \E r \in Requests :
        /\ genCalls[r] > 0
        /\ body[r][1].end # None
        /\ Len(routes[r]) >= 1
        /\ Len(routes[r][1].waypoints) = 2

\* C10: every route has at least two points, after generateRoutes and after
\* getRoutedPaths.
C10_AtLeastTwoPoints ==
    \A r \in Requests :
        /\ \A k \in 1..Len(routes[r]) : Len(routes[r][k].points) >= 2
        /\ \A k \in 1..Len(routedRoutes[r]) : Len(routedRoutes[r][k].points) >= 2

\* C11: no waypoint of a route produced by generateRoutes equals the start
\* coordinate or the end coordinate, in loop mode and in point-to-point mode.
C11_WaypointsAvoidEndpoints ==
    \A r \in Requests :
        genCalls[r] > 0 =>
            \A k \in 1..Len(routes[r]) :
                \A j \in 1..Len(routes[r][k].waypoints) :
                    LET w     == routes[r][k].waypoints[j]
                        start == [lat |-> body[r][1].start[1].lat[1],
                                  lon |-> body[r][1].start[1].lon[1]]
                    IN  /\ w # start
                        /\ body[r][1].end # None => w # body[r][1].end[1]

\* C12: the router is called at most once per route and in input order, the
\* call for the next route is issued only when the outcome of the one before
\* is recorded, and a completed invocation has called it once for every route.
C12_SingleAttemptInOrder ==
    \A r \in Requests :
        /\ Len(fetched[r]) <= Len(routes[r])
        /\ \A k \in 1..Len(fetched[r]) : fetched[r][k] = routes[r][k].id
        /\ \A j, k \in 1..Len(fetched[r]) : j # k => fetched[r][j] # fetched[r][k]
        /\ Len(fetched[r]) =
               Len(routedRoutes[r]) + (IF inflight[r] # None THEN 1 ELSE 0)
        /\ inflight[r] # None =>
               inflight[r][1].route = fetched[r][Len(fetched[r])]
        /\ (response[r] # None /\ response[r][1].status = 200)
               => Len(fetched[r]) = Len(routes[r])

\* A completed batch of three routes, called 0, 1, 2, whose last call threw.
C12_Witness ==
    \E r \in Requests :
        /\ pc[r] = "done"
        /\ fetched[r] = <<0, 1, 2>>
        /\ data[r] # None
        /\ data[r][1].threw
        /\ routedRoutes[r][3] = routes[r][3]

\* Number of external calls in flight over all requests.
InFlightCalls == Cardinality({r \in Requests : inflight[r] # None})

\* C13: the external calls in flight at the same time stay under a fixed
\* bound however many requests overlap: of MaxReq overlapping requests at
\* least one is held back from calling the router.
C13_InFlightBounded == InFlightCalls < MaxReq

\* C14: every route emitted by getRoutedPaths, enriched or fallen back, has
\* the id, the waypoints and the isLoop of the input route at its position.
C14_FrameKept ==
    \A r \in Requests :
        \A k \in 1..Len(routedRoutes[r]) :
            /\ routedRoutes[r][k].id = routes[r][k].id
            /\ routedRoutes[r][k].waypoints = routes[r][k].waypoints
            /\ routedRoutes[r][k].isLoop = routes[r][k].isLoop

\* An enriched loop route: road geometry in points, the synthesizer's
\* waypoints still in waypoints.
C14_Witness ==
    \E r \in Requests :
        /\ Len(routedRoutes[r]) >= 2
        /\ routedRoutes[r][2].steps # None
        /\ routedRoutes[r][2].points # routes[r][2].points
        /\ routedRoutes[r][2].isLoop
        /\ Len(routedRoutes[r][2].waypoints) = 4

====
